---- MODULE Spec2Model ----
(***************************************************************************)
(* A model of the log-compression helpers: the dictionary coder            *)
(* (dict_coder.py), the word-frequency dictionary writer                   *)
(* (word_frequency_dict.py), the batch sorter                              *)
(* (sort_log_by_edit_distance.py) and the substring dictionary builder     *)
(* (create_longest_match_dict_with_stats.py).                              *)
(*                                                                         *)
(* A Python str is a sequence of one-character strings; a text file is a   *)
(* sequence of lines (each without its line terminator).                   *)
(***************************************************************************)
EXTENDS Integers, Sequences, FiniteSets, TLC

VARIABLES
    \* ---- dict_coder.py: one DictionaryCoder and the files it touches
    dict_file,      \* the dictionary file (a sequence of lines)
    in_file,        \* the text file given to encode
    word_to_id,     \* self.word_to_id
    id_to_word,     \* self.id_to_word
    next_id,        \* self.next_id
    mappings,       \* the pickled pair in the mappings directory, or NoFile
    enc_file,       \* the file encode wrote, or NoFile
    dec_file,       \* the file decode wrote, or NoFile
    dec_input,      \* the file the last decode read, or NoFile
    pc,             \* where the running script is
    \* ---- word_frequency_dict.py
    frequency_dict, \* the dict given to save_word_frequency_dict
    \* ---- sort_log_by_edit_distance.py
    sort_input,     \* the lines of the input log, as decoded
    batch_size,     \* batch_size
    dest,           \* the output file, or NoFile
    batch,          \* batch
    batch_num,      \* batch_num
    sort_pos,       \* the number of input lines read
    pb_batch,       \* the batch given to the last call of process_batch
    pb_written,     \* the lines that call wrote
    s1,             \* levenshtein_distance's first argument
    s2,             \* levenshtein_distance's second argument
    distance,       \* what levenshtein_distance returned, or NoResult
    \* ---- create_longest_match_dict_with_stats.py
    enh_file,       \* the lines of the input file
    max_lines,      \* max_lines
    substring_stats, \* substring_stats[substr]['count'], or NoResult
    enhanced_dicts  \* what build_enhanced_dict returned, run after run

coder_vars == <<dict_file, in_file, word_to_id, id_to_word, next_id,
                mappings, enc_file, dec_file, dec_input, pc>>

sort_vars == <<sort_input, batch_size, dest, batch, batch_num, sort_pos,
               pb_batch, pb_written>>

dist_vars == <<s1, s2, distance>>

enh_vars == <<enh_file, max_lines, substring_stats, enhanced_dicts>>

vars == <<coder_vars, frequency_dict, sort_vars, dist_vars, enh_vars>>

(***************************************************************************)
(* Bounds of the model.                                                    *)
(***************************************************************************)
MaxRows == 2        \* data rows of a dictionary file
MaxLines == 2       \* lines of a text or id file
MaxTokens == 2      \* whitespace-separated tokens of a text or id file

\* an optional file: NoFile, or File(content)
NoFile == <<>>

File(content) == <<content>>

Content(file) == file[1]

\* a result not computed yet
NoResult == <<>>

(***************************************************************************)
(* Python str operations.                                                  *)
(***************************************************************************)
Whitespace == {" ", "\t"}

RECURSIVE LStrip(_)
LStrip(s) ==
    IF s # <<>> /\ Head(s) \in Whitespace THEN LStrip(Tail(s)) ELSE s

RECURSIVE RStrip(_)
RStrip(s) ==
    IF s # <<>> /\ s[Len(s)] \in Whitespace
    THEN RStrip(SubSeq(s, 1, Len(s) - 1)) ELSE s

\* str.strip()
Strip(s) == RStrip(LStrip(s))

\* str.split(sep) for a one-character sep: never empty, keeps empty fields
RECURSIVE SplitOn(_, _)
SplitOn(s, sep) ==
    IF \A i \in 1..Len(s) : s[i] # sep THEN <<s>>
    ELSE LET i == CHOOSE k \in 1..Len(s) :
                     s[k] = sep /\ \A j \in 1..(k - 1) : s[j] # sep
         IN  <<SubSeq(s, 1, i - 1)>> \o SplitOn(SubSeq(s, i + 1, Len(s)), sep)

\* str.split(): runs of whitespace separate, no empty token
RECURSIVE SplitWs(_)
SplitWs(s) ==
    LET t == LStrip(s) IN
    IF t = <<>> THEN <<>>
    ELSE IF \A i \in 1..Len(t) : t[i] \notin Whitespace THEN <<t>>
    ELSE LET i == CHOOSE k \in 1..Len(t) :
                     t[k] \in Whitespace /\ \A j \in 1..(k - 1) : t[j] \notin Whitespace
         IN  <<SubSeq(t, 1, i - 1)>> \o SplitWs(SubSeq(t, i + 1, Len(t)))

\* sep.join(parts)
RECURSIVE Join(_, _)
Join(parts, sep) ==
    IF parts = <<>> THEN <<>>
    ELSE IF Len(parts) = 1 THEN parts[1]
    ELSE parts[1] \o sep \o Join(Tail(parts), sep)

\* str.endswith(suffix)
EndsWith(s, suffix) ==
    /\ Len(s) >= Len(suffix)
    /\ SubSeq(s, Len(s) - Len(suffix) + 1, Len(s)) = suffix

UpperToLower == [c \in {"A", "B", "U", "N", "K"} |->
                    CASE c = "A" -> "a" [] c = "B" -> "b" [] c = "U" -> "u"
                      [] c = "N" -> "n" [] c = "K" -> "k"]

\* str.lower()
Lower(s) == [i \in 1..Len(s) |->
                IF s[i] \in DOMAIN UpperToLower THEN UpperToLower[s[i]] ELSE s[i]]

Digits == <<"0", "1", "2", "3", "4", "5", "6", "7", "8", "9">>

DigitValue(c) == (CHOOSE k \in 1..10 : Digits[k] = c) - 1

IsDigit(c) == \E k \in 1..10 : Digits[k] = c

\* str(n) for an int n >= 0: its decimal digits
RECURSIVE Str(_)
Str(n) == IF n < 10 THEN <<Digits[n + 1]>> ELSE Str(n \div 10) \o <<Digits[(n % 10) + 1]>>

RECURSIVE DigitsValue(_)
DigitsValue(s) ==
    IF s = <<>> THEN 0
    ELSE 10 * DigitsValue(SubSeq(s, 1, Len(s) - 1)) + DigitValue(s[Len(s)])

\* int(s) for a whitespace-free s: an optional sign and decimal digits give a
\* value, anything else raises ValueError (ok = FALSE)
ParseInt(s) ==
    LET signed == s # <<>> /\ Head(s) \in {"+", "-"}
        body   == IF signed THEN Tail(s) ELSE s
    IN  IF body # <<>> /\ \A i \in 1..Len(body) : IsDigit(body[i])
        THEN [ok |-> TRUE,
              val |-> IF signed /\ Head(s) = "-" THEN 0 - DigitsValue(body)
                      ELSE DigitsValue(body)]
        ELSE [ok |-> FALSE, val |-> 0]

(***************************************************************************)
(* dict_coder.py                                                           *)
(***************************************************************************)
UNK == <<"u", "n", "k">>

Ellipsis == <<".", ".", ".">>

\* A vocabulary value: the three fields of a DictionaryCoder.
Voc(w2i, i2w, n) == [word_to_id |-> w2i, id_to_word |-> i2w, next_id |-> n]

\* DictionaryCoder.__init__ without dict_path
EmptyVoc == Voc(<<>>, <<>>, 0)

\* d[k] = v on a dict
Put(d, k, v) == [x \in (DOMAIN d) \cup {k} |-> IF x = k THEN v ELSE d[x]]

\* line 25: the columns of a row
RowParts(line) == SplitOn(Strip(line), "|")

\* lines 29-32: the word of a row that has a word column, truncation marker removed
RowWord(line) ==
    LET word == Strip(RowParts(line)[2]) IN
    IF EndsWith(word, Ellipsis) THEN SubSeq(word, 1, Len(word) - 3) ELSE word

\* a slip: every row is given an id, also a row whose word is already mapped
LoadRow_NoMembershipTest(voc, line) ==
    IF Len(RowParts(line)) < 2 THEN voc
    ELSE Voc(Put(voc.word_to_id, RowWord(line), voc.next_id),
             Put(voc.id_to_word, voc.next_id, RowWord(line)),
             voc.next_id + 1)

\* a slip: the id is taken from the rank column
LoadRow_ByRank(voc, line) ==
    IF Len(RowParts(line)) < 2 THEN voc
    ELSE LET word == RowWord(line)
             rank == ParseInt(Strip(RowParts(line)[1])).val
         IN  IF word \notin DOMAIN voc.word_to_id
             THEN Voc(Put(voc.word_to_id, word, rank - 1),
                      Put(voc.id_to_word, rank - 1, word),
                      voc.next_id + 1)
             ELSE voc

\* the body of load_dictionary's loop for one data row
LoadRow(voc, line) ==
    IF Len(RowParts(line)) < 2 THEN voc
    ELSE LET word == RowWord(line) IN
         IF word \notin DOMAIN voc.word_to_id
         THEN Voc(Put(voc.word_to_id, word, voc.next_id),
                  Put(voc.id_to_word, voc.next_id, word),
                  voc.next_id + 1)
         ELSE voc

RECURSIVE LoadRows(_, _)
LoadRows(voc, rows) ==
    IF rows = <<>> THEN voc ELSE LoadRows(LoadRow(voc, Head(rows)), Tail(rows))

\* load_dictionary on a file with its two header lines
LoadDictionaryVoc(voc, file) == LoadRows(voc, SubSeq(file, 3, Len(file)))

\* lines 89-92: 'unk' is given the next id unless it has one
WithUnk(voc) ==
    IF UNK \notin DOMAIN voc.word_to_id
    THEN Voc(Put(voc.word_to_id, UNK, voc.next_id),
             Put(voc.id_to_word, voc.next_id, UNK),
             voc.next_id + 1)
    ELSE voc

\* a slip: a word that is not in the vocabulary is itself given the next id
EncodeWord_AddsWord(voc, word) ==
    LET normalized_word == Lower(word) IN
    IF normalized_word \in DOMAIN voc.word_to_id
    THEN [voc |-> voc, id |-> voc.word_to_id[normalized_word]]
    ELSE [voc |-> Voc(Put(voc.word_to_id, normalized_word, voc.next_id),
                      Put(voc.id_to_word, voc.next_id, normalized_word),
                      voc.next_id + 1),
          id |-> voc.next_id]

\* a slip: the word is looked up as written, not lower-cased
EncodeWord_NoLower(voc, word) ==
    IF word \in DOMAIN voc.word_to_id
    THEN [voc |-> voc, id |-> voc.word_to_id[word]]
    ELSE [voc |-> WithUnk(voc), id |-> WithUnk(voc).word_to_id[UNK]]

\* the body of encode's inner loop for one word: the vocabulary and the id written
EncodeWord(voc, word) ==
    LET normalized_word == Lower(word) IN
    IF normalized_word \in DOMAIN voc.word_to_id
    THEN [voc |-> voc, id |-> voc.word_to_id[normalized_word]]
    ELSE [voc |-> WithUnk(voc), id |-> WithUnk(voc).word_to_id[UNK]]

\* encode's inner loop over the words of one line
RECURSIVE EncodeWords(_, _)
EncodeWords(voc, words) ==
    IF words = <<>> THEN [voc |-> voc, ids |-> <<>>]
    ELSE LET first == EncodeWord(voc, Head(words))
             rest  == EncodeWords(first.voc, Tail(words))
         IN  [voc |-> rest.voc, ids |-> <<Str(first.id)>> \o rest.ids]

\* encode's outer loop: the vocabulary afterwards and the lines written
RECURSIVE EncodeLines(_, _)
EncodeLines(voc, lines) ==
    IF lines = <<>> THEN [voc |-> voc, out |-> <<>>]
    ELSE LET first == EncodeWords(voc, SplitWs(Strip(Head(lines))))
             rest  == EncodeLines(first.voc, Tail(lines))
         IN  [voc |-> rest.voc,
              out |-> <<Join(first.ids, <<" ">>)>> \o rest.out]

\* decode's inner try block for one id string
DecodeId(i2w, id_str) ==
    LET p == ParseInt(id_str) IN
    IF p.ok THEN (IF p.val \in DOMAIN i2w THEN i2w[p.val] ELSE UNK)
    ELSE UNK

\* decode's loop body for one line
DecodeLine(i2w, line) ==
    LET ids == SplitWs(Strip(line)) IN
    Join([k \in 1..Len(ids) |-> DecodeId(i2w, ids[k])], <<" ">>)

\* decode: the lines written
DecodeLines(i2w, lines) == [k \in 1..Len(lines) |-> DecodeLine(i2w, lines[k])]

(***************************************************************************)
(* Input files.                                                            *)
(***************************************************************************)
SeqsUpTo(S, n) == UNION {[1..k -> S] : k \in 0..n}

RECURSIVE SumLen(_)
SumLen(ss) == IF ss = <<>> THEN 0 ELSE Len(Head(ss)) + SumLen(Tail(ss))

\* files of at most MaxLines lines and MaxTokens tokens, tokens single-spaced
FilesOver(tokens) ==
    {[k \in 1..Len(f) |-> Join(f[k], <<" ">>)] :
        f \in {g \in SeqsUpTo(SeqsUpTo(tokens, MaxTokens), MaxLines) :
                  SumLen(g) <= MaxTokens}}

TextTokens == {<<"A">>, UNK}

Texts == FilesOver(TextTokens)

HeaderLine == <<"R", "a", "n", "k", " ", "|", " ", "W", "o", "r", "d">>

SeparatorLine == <<"-", "-", "-", "-">>

\* a data row: rank | word | length (the columns after the word are not read)
Row(rank, field) == rank \o <<" ", "|", " ">> \o field \o <<" ", "|", " ", "1">>

DictRows ==
    { Row(<<"2">>, <<"a">> \o Ellipsis \o <<" ", " ">>),  \* padded, marked as truncated, rank out of order
      Row(<<"1">>, UNK),                                 \* the word unk
      Row(<<"4">>, <<" ">>),                             \* an empty word column
      <<"-", "-">> }                                     \* no column separator

DictFiles == {<<HeaderLine, SeparatorLine>> \o rows : rows \in SeqsUpTo(DictRows, MaxRows)}

(***************************************************************************)
(* The coder's methods.  Each takes the file it reads as its argument and  *)
(* leaves pc and the input files to the caller.                            *)
(***************************************************************************)
CoderVoc == Voc(word_to_id, id_to_word, next_id)

\* DictionaryCoder(): a fresh coder
NewCoder ==
    /\ word_to_id' = <<>>
    /\ id_to_word' = <<>>
    /\ next_id' = 0
    /\ UNCHANGED <<mappings, enc_file, dec_file, dec_input>>

\* coder.load_dictionary(file); a file without its two header lines ends the process
LoadDictionary(file) ==
    /\ Len(file) >= 2
    /\ LET v == LoadDictionaryVoc(CoderVoc, file) IN
        /\ word_to_id' = v.word_to_id
        /\ id_to_word' = v.id_to_word
        /\ next_id' = v.next_id
    /\ UNCHANGED <<mappings, enc_file, dec_file, dec_input>>

\* DictionaryCoder(file): a fresh coder that loads the dictionary
NewCoderWithDictionary(file) ==
    /\ Len(file) >= 2
    /\ LET v == LoadDictionaryVoc(EmptyVoc, file) IN
        /\ word_to_id' = v.word_to_id
        /\ id_to_word' = v.id_to_word
        /\ next_id' = v.next_id
    /\ UNCHANGED <<mappings, enc_file, dec_file, dec_input>>

\* coder.encode(file, enc_file)
Encode(file) ==
    /\ LET r == EncodeLines(CoderVoc, file) IN
        /\ word_to_id' = r.voc.word_to_id
        /\ id_to_word' = r.voc.id_to_word
        /\ next_id' = r.voc.next_id
        /\ enc_file' = File(r.out)
    /\ UNCHANGED <<mappings, dec_file, dec_input>>

\* coder.save_mappings(dir)
SaveMappings ==
    /\ mappings' = File([word_to_id |-> word_to_id, id_to_word |-> id_to_word])
    /\ UNCHANGED <<word_to_id, id_to_word, next_id, enc_file, dec_file, dec_input>>

\* coder.load_mappings(dir); a missing pickle ends the process
LoadMappings ==
    /\ mappings # NoFile
    /\ word_to_id' = Content(mappings).word_to_id
    /\ id_to_word' = Content(mappings).id_to_word
    /\ next_id' = Cardinality(DOMAIN Content(mappings).word_to_id)
    /\ UNCHANGED <<mappings, enc_file, dec_file, dec_input>>

\* coder.decode(file, dec_file)
Decode(file) ==
    /\ dec_file' = File(DecodeLines(id_to_word, file))
    /\ dec_input' = File(file)
    /\ UNCHANGED <<word_to_id, id_to_word, next_id, mappings, enc_file>>

\* what a call on the coder leaves as it is
CoderFrame == UNCHANGED <<dict_file, in_file, frequency_dict, sort_vars, dist_vars, enh_vars>>

CoderInit ==
    /\ word_to_id = <<>>
    /\ id_to_word = <<>>
    /\ next_id = 0
    /\ mappings = NoFile
    /\ enc_file = NoFile
    /\ dec_file = NoFile
    /\ dec_input = NoFile

\* no dictionary is being written
WordDictIdle == frequency_dict = <<>>

\* no log is being sorted
SortIdle ==
    /\ sort_input = <<>>
    /\ batch_size = 1
    /\ dest = NoFile
    /\ batch = <<>>
    /\ batch_num = 0
    /\ sort_pos = 0
    /\ pb_batch = <<>>
    /\ pb_written = <<>>

\* no distance is being computed
DistanceIdle ==
    /\ s1 = <<>>
    /\ s2 = <<>>
    /\ distance = NoResult

\* no substring dictionary is being built
EnhancedIdle ==
    /\ enh_file = <<>>
    /\ max_lines = 1
    /\ substring_stats = NoResult
    /\ enhanced_dicts = <<>>

\* no coder script is running
CoderIdle ==
    /\ dict_file = <<>>
    /\ in_file = <<>>
    /\ pc = "none"
    /\ CoderInit

(***************************************************************************)
(* Spec: one coder, fresh at first, whose methods load_dictionary, encode,  *)
(* save_mappings and load_mappings are called in any order, on a           *)
(* dictionary file and a text file that stay as they are.                  *)
(***************************************************************************)
CallLoadDictionary ==
    /\ LoadDictionary(dict_file)
    /\ UNCHANGED pc
    /\ CoderFrame

CallEncode ==
    /\ Encode(in_file)
    /\ UNCHANGED pc
    /\ CoderFrame

CallSaveMappings ==
    /\ SaveMappings
    /\ UNCHANGED pc
    /\ CoderFrame

CallLoadMappings ==
    /\ LoadMappings
    /\ UNCHANGED pc
    /\ CoderFrame

Init ==
    /\ dict_file \in DictFiles
    /\ in_file \in Texts
    /\ pc = "any"
    /\ CoderInit
    /\ WordDictIdle
    /\ SortIdle
    /\ DistanceIdle
    /\ EnhancedIdle

Next ==
    \/ CallLoadDictionary
    \/ CallEncode
    \/ CallSaveMappings
    \/ CallLoadMappings

Spec == Init /\ [][Next]_vars

(***************************************************************************)
(* SpecMain: main() run as the scripts run it, on a dictionary file and a  *)
(* text file that stay as they are: encode mode (lines 140-148), then      *)
(* decode mode (lines 150-157) on the encoded file, any number of times.   *)
(***************************************************************************)
\* line 146: coder = DictionaryCoder(dict_file)
MainConstruct ==
    /\ pc = "idle"
    /\ NewCoderWithDictionary(dict_file)
    /\ pc' = "constructed"
    /\ CoderFrame

\* line 147: coder.encode(input_file, output_file)
MainEncode ==
    /\ pc = "constructed"
    /\ Encode(in_file)
    /\ pc' = "encoded"
    /\ CoderFrame

\* line 148: coder.save_mappings(mappings_dir)
MainSaveMappings ==
    /\ pc = "encoded"
    /\ SaveMappings
    /\ pc' = "idle"
    /\ CoderFrame

\* line 155: coder = DictionaryCoder()
MainNewCoder ==
    /\ pc = "idle"
    /\ NewCoder
    /\ pc' = "fresh"
    /\ CoderFrame

\* line 156: coder.load_mappings(mappings_dir)
MainLoadMappings ==
    /\ pc = "fresh"
    /\ LoadMappings
    /\ pc' = "reloaded"
    /\ CoderFrame

\* line 157: coder.decode(input_file, output_file) on the encoded file
MainDecode ==
    /\ pc = "reloaded"
    /\ enc_file # NoFile
    /\ Decode(Content(enc_file))
    /\ pc' = "idle"
    /\ CoderFrame

InitMain ==
    /\ dict_file \in DictFiles
    /\ in_file \in Texts
    /\ pc = "idle"
    /\ CoderInit
    /\ WordDictIdle
    /\ SortIdle
    /\ DistanceIdle
    /\ EnhancedIdle

NextMain ==
    \/ MainConstruct
    \/ MainEncode
    \/ MainSaveMappings
    \/ MainNewCoder
    \/ MainLoadMappings
    \/ MainDecode

SpecMain == InitMain /\ [][NextMain]_vars

(***************************************************************************)
(* SpecDecode: main() as in SpecMain, but decode mode is given any id file. *)
(***************************************************************************)
IdTokens == {<<"0">>, <<"1">>, <<"x">>}

IdFiles == FilesOver(IdTokens)

\* line 157: coder.decode(input_file, output_file) on any id file
MainDecodeFile ==
    /\ pc = "reloaded"
    /\ \E file \in IdFiles : Decode(file)
    /\ pc' = "idle"
    /\ CoderFrame

NextDecode ==
    \/ MainConstruct
    \/ MainEncode
    \/ MainSaveMappings
    \/ MainNewCoder
    \/ MainLoadMappings
    \/ MainDecodeFile

SpecDecode == InitMain /\ [][NextDecode]_vars

(***************************************************************************)
(* word_frequency_dict.py: save_word_frequency_dict                        *)
(***************************************************************************)
RankColumnWidth == 6

WordColumnWidth == 30

TruncatedLength == 27

LengthColumnWidth == 6

FrequencyColumnWidth == 9

SeparatorWidth == 100

\* c * n
Repeat(c, n) == [i \in 1..n |-> c]

\* the format spec :<n
LJust(s, n) == IF Len(s) >= n THEN s ELSE s \o Repeat(" ", n - Len(s))

\* the code points of the characters of the words
Ord(c) == CASE c = "'" -> 39 [] c = "-" -> 45 [] c = "a" -> 97 [] c = "b" -> 98
            [] c = "k" -> 107 [] c = "n" -> 110 [] c = "u" -> 117

\* s < t on str
RECURSIVE StrLess(_, _)
StrLess(s, t) ==
    IF t = <<>> THEN FALSE
    ELSE IF s = <<>> THEN TRUE
    ELSE IF Head(s) # Head(t) THEN Ord(Head(s)) < Ord(Head(t))
    ELSE StrLess(Tail(s), Tail(t))

\* line 63: the sort key (-count, -len(word), word) of one item before another
KeyLess(d, w, v) ==
    \/ d[w] > d[v]
    \/ d[w] = d[v] /\ Len(w) > Len(v)
    \/ d[w] = d[v] /\ Len(w) = Len(v) /\ StrLess(w, v)

\* lines 61-64: the words of sorted(frequency_dict.items(), key=...)
RECURSIVE SortedWords(_, _)
SortedWords(d, words) ==
    IF words = {} THEN <<>>
    ELSE LET first == CHOOSE w \in words : \A v \in words \ {w} : KeyLess(d, w, v)
         IN  <<first>> \o SortedWords(d, words \ {first})

RECURSIVE SumCounts(_, _)
SumCounts(d, words) ==
    IF words = {} THEN 0
    ELSE LET w == CHOOSE x \in words : TRUE IN d[w] + SumCounts(d, words \ {w})

\* f"{percentage:.2f}%" for percentage = count / total * 100; with a total this
\* small no quotient lies halfway between two hundredths
Percentage(count, total) ==
    LET hundredths == (2 * 10000 * count + total) \div (2 * total)
        cents      == hundredths % 100
    IN  Str(hundredths \div 100) \o <<".">>
            \o (IF cents < 10 THEN <<"0">> ELSE <<>>) \o Str(cents) \o <<"%">>

\* line 75: the word column
WordColumn(word) ==
    LJust(IF Len(word) > WordColumnWidth
          THEN SubSeq(word, 1, TruncatedLength) \o Ellipsis ELSE word,
          WordColumnWidth)

Bar == <<" ", "|", " ">>

\* lines 74-77: one row
WordRow(rank, word, count, total) ==
    LJust(Str(rank), RankColumnWidth) \o Bar \o WordColumn(word) \o Bar
        \o LJust(Str(Len(word)), LengthColumnWidth) \o Bar
        \o LJust(Str(count), FrequencyColumnWidth) \o Bar \o Percentage(count, total)

\* line 68
WordHeader ==
    LJust(<<"R", "a", "n", "k">>, RankColumnWidth) \o Bar
        \o LJust(<<"W", "o", "r", "d">>, WordColumnWidth)
        \o <<" ", "|", " ", "L", "e", "n", "g", "t", "h", " ", "|", " ", "F", "r", "e", "q", "u", "e", "n", "c", "y", " ", "|", " ", "P", "e", "r", "c", "e", "n", "t", "a", "g", "e">>

\* lines 56-77: the lines save_word_frequency_dict writes
WordFrequencyFile(d) ==
    LET sorted_words == SortedWords(d, DOMAIN d)
        total        == SumCounts(d, DOMAIN d)
    IN  <<WordHeader, Repeat("-", SeparatorWidth)>>
            \o [k \in 1..Len(sorted_words) |->
                   WordRow(k, sorted_words[k], d[sorted_words[k]], total)]

MaxCount == 2       \* the largest frequency of a word

\* lower-cased words as extract_words finds them: short ones, one as long as the
\* word column, and two longer ones that differ in their last character only
SampleWords ==
    { <<"a", "b">>, <<"b">>, UNK,
      Repeat("a", WordColumnWidth),
      Repeat("a", WordColumnWidth + 1),
      Repeat("a", WordColumnWidth) \o <<"b">> }

FrequencyDicts == UNION {[ws -> 1..MaxCount] : ws \in SUBSET SampleWords}

(***************************************************************************)
(* SpecWordDict: word_frequency_dict.py writes the dictionary file of      *)
(* frequency_dict, then dict_coder.py's encode mode runs on that file and  *)
(* on a text of one of the words.                                          *)
(***************************************************************************)
\* word_frequency_dict.py line 98: save_word_frequency_dict(frequency_dict, output_file)
SaveWordFrequencyDict ==
    /\ pc = "counted"
    /\ dict_file' = WordFrequencyFile(frequency_dict)
    /\ pc' = "idle"
    /\ UNCHANGED <<in_file, word_to_id, id_to_word, next_id, mappings, enc_file,
                   dec_file, dec_input>>
    /\ UNCHANGED <<frequency_dict, sort_vars, dist_vars, enh_vars>>

InitWordDict ==
    /\ frequency_dict \in FrequencyDicts
    /\ dict_file = <<>>
    /\ in_file \in {<<w>> : w \in DOMAIN frequency_dict}
    /\ pc = "counted"
    /\ CoderInit
    /\ SortIdle
    /\ DistanceIdle
    /\ EnhancedIdle

NextWordDict ==
    \/ SaveWordFrequencyDict
    \/ MainConstruct
    \/ MainEncode
    \/ MainSaveMappings

SpecWordDict == InitWordDict /\ [][NextWordDict]_vars

(***************************************************************************)
(* sort_log_by_edit_distance.py                                            *)
(***************************************************************************)
Min(a, b) == IF a <= b THEN a ELSE b

\* a slip: a substitution costs 1 also when the two characters are equal
LevCell_AlwaysCosts(previous_row, current_row, j, c1, c2) ==
    Min(Min(previous_row[j + 1] + 1, current_row[j] + 1), previous_row[j] + 1)

\* lines 17-20: the cell appended to current_row for the j-th character c2 of s2
\* (rows are indexed from 1 here, so previous_row[j] is Python's previous_row[j - 1])
LevCell(previous_row, current_row, j, c1, c2) ==
    LET insertions    == previous_row[j + 1] + 1
        deletions     == current_row[j] + 1
        substitutions == previous_row[j] + (IF c1 # c2 THEN 1 ELSE 0)
    IN  Min(Min(insertions, deletions), substitutions)

\* lines 16-20: current_row grown over the characters j..len(s2) of s2
RECURSIVE LevRow(_, _, _, _, _)
LevRow(previous_row, current_row, j, c1, t) ==
    IF j > Len(t) THEN current_row
    ELSE LevRow(previous_row,
                Append(current_row, LevCell(previous_row, current_row, j, c1, t[j])),
                j + 1, c1, t)

\* lines 14-21: previous_row after the characters i..len(s1) of s1
RECURSIVE LevRows(_, _, _, _)
LevRows(previous_row, i, s, t) ==
    IF i > Len(s) THEN previous_row
    ELSE LevRows(LevRow(previous_row, <<i>>, 1, s[i], t), i + 1, s, t)

\* lines 10-23: levenshtein_distance(s, t) when len(s) >= len(t)
LevLongFirst(s, t) ==
    IF Len(t) = 0 THEN Len(s)
    ELSE LevRows([k \in 1..(Len(t) + 1) |-> k - 1], 1, s, t)[Len(t) + 1]

\* lines 5-23
levenshtein_distance(a, b) ==
    IF Len(a) < Len(b) THEN LevLongFirst(b, a) ELSE LevLongFirst(a, b)

\* the characters of string.printable that the input lines use; "x01" stands for
\* the one character U+0001, which is not printable
Printable == {"a", "b", " ", "\t", "?"}

\* lines 25-28
clean_line(line) ==
    [i \in 1..Len(line) |-> IF line[i] \in Printable THEN line[i] ELSE "?"]

\* lines 40-42: batch_with_distance
BatchWithDistance(b) ==
    [k \in 1..Len(b) |-> [distance |-> levenshtein_distance(b[1], b[k]), line |-> b[k]]]

\* a slip: an item goes before the items of equal distance
InsertByDistance_BeforeEqual(sorted, item) ==
    LET n == Cardinality({k \in 1..Len(sorted) : sorted[k].distance < item.distance})
    IN  SubSeq(sorted, 1, n) \o <<item>> \o SubSeq(sorted, n + 1, Len(sorted))

\* list.sort is stable: an item goes after the items of lesser or equal key
InsertByDistance(sorted, item) ==
    LET n == Cardinality({k \in 1..Len(sorted) : sorted[k].distance <= item.distance})
    IN  SubSeq(sorted, 1, n) \o <<item>> \o SubSeq(sorted, n + 1, Len(sorted))

\* line 45: batch_with_distance.sort(key=lambda x: x[0])
RECURSIVE SortByDistance(_)
SortByDistance(items) ==
    IF items = <<>> THEN <<>>
    ELSE InsertByDistance(SortByDistance(SubSeq(items, 1, Len(items) - 1)),
                          items[Len(items)])

\* lines 36-46: sorted_batch
SortedBatch(b) ==
    LET items == SortByDistance(BatchWithDistance(b))
    IN  [k \in 1..Len(items) |-> items[k].line]

\* the lines of a file that may not exist
Lines(file) == IF file = NoFile THEN <<>> ELSE Content(file)

\* lines 30-54: process_batch(b, num, output_file)
process_batch(b, num) ==
    IF b = <<>>
    THEN UNCHANGED <<dest, pb_batch, pb_written>>
    ELSE /\ dest' = IF num > 0 THEN File(Lines(dest) \o SortedBatch(b))
                    ELSE File(SortedBatch(b))
         /\ pb_batch' = b
         /\ pb_written' = SortedBatch(b)

\* what the sorter leaves as it is
SortFrame ==
    /\ UNCHANGED <<dict_file, in_file, word_to_id, id_to_word, next_id, mappings,
                   enc_file, dec_file, dec_input>>
    /\ UNCHANGED <<frequency_dict, dist_vars, enh_vars>>

\* lines 64-77: one turn of the loop over the input lines
SortReadLine ==
    /\ pc = "reading"
    /\ sort_pos < Len(sort_input)
    /\ LET cleaned_line == Strip(clean_line(sort_input[sort_pos + 1]))
           filled       == IF cleaned_line # <<>> THEN Append(batch, cleaned_line)
                           ELSE batch
       IN  IF Len(filled) >= batch_size
           THEN /\ process_batch(filled, batch_num)
                /\ batch' = <<>>
                /\ batch_num' = batch_num + 1
           ELSE /\ batch' = filled
                /\ UNCHANGED <<batch_num, dest, pb_batch, pb_written>>
    /\ sort_pos' = sort_pos + 1
    /\ UNCHANGED <<pc, sort_input, batch_size>>
    /\ SortFrame

\* lines 80-83: the input is read, the last batch is processed
SortFinish ==
    /\ pc = "reading"
    /\ sort_pos = Len(sort_input)
    /\ process_batch(batch, batch_num)
    /\ pc' = "done"
    /\ UNCHANGED <<sort_input, batch_size, batch, batch_num, sort_pos>>
    /\ SortFrame

MaxInputLines == 3  \* lines of the input log

MaxBatch == 3       \* the largest batch_size

RawLines ==
    { <<>>,                 \* an empty line
      <<" ", "a">>,         \* needs stripping
      <<"b">>,
      <<"a", "b">>,
      <<"b", "b">>,
      <<"x01">> }           \* a character that is not printable

StaleLine == <<"o", "l", "d">>

InitSort ==
    /\ sort_input \in SeqsUpTo(RawLines, MaxInputLines)
    /\ batch_size \in 1..MaxBatch
    /\ dest \in {NoFile, File(<<StaleLine>>)}
    /\ batch = <<>>
    /\ batch_num = 0
    /\ sort_pos = 0
    /\ pb_batch = <<>>
    /\ pb_written = <<>>
    /\ pc = "reading"
    /\ dict_file = <<>>
    /\ in_file = <<>>
    /\ CoderInit
    /\ WordDictIdle
    /\ DistanceIdle
    /\ EnhancedIdle

NextSort ==
    \/ SortReadLine
    \/ SortFinish

SpecSort == InitSort /\ [][NextSort]_vars

(***************************************************************************)
(* SpecDistance: levenshtein_distance applied to a pair of strings.        *)
(***************************************************************************)
MaxStrLen == 3      \* the length of an argument of levenshtein_distance

Alphabet == {"a", "b"}

Strings == SeqsUpTo(Alphabet, MaxStrLen)

ComputeDistance ==
    /\ distance = NoResult
    /\ distance' = <<levenshtein_distance(s1, s2)>>
    /\ UNCHANGED <<s1, s2>>
    /\ UNCHANGED <<coder_vars, frequency_dict, sort_vars, enh_vars>>

InitDistance ==
    /\ s1 \in Strings
    /\ s2 \in Strings
    /\ distance = NoResult
    /\ CoderIdle
    /\ WordDictIdle
    /\ SortIdle
    /\ EnhancedIdle

NextDistance == ComputeDistance

SpecDistance == InitDistance /\ [][NextDistance]_vars

(***************************************************************************)
(* create_longest_match_dict_with_stats.py: the statistics of              *)
(* build_enhanced_dict                                                     *)
(***************************************************************************)
MinLength == 3

MaxLength == 50

\* lines 5-17: extract_substrings(line)
extract_substrings(line) ==
    UNION {{SubSeq(line, start + 1, end) :
                end \in (start + MinLength)..Min(start + MaxLength, Len(line))} :
              start \in 0..(Len(line) - 1)}

\* lines 45-49: substring_stats after the substrings of one line
CountSubstrings(stats, substrings) ==
    [x \in (DOMAIN stats) \cup substrings |->
        IF x \in substrings
        THEN [count  |-> (IF x \in DOMAIN stats THEN stats[x].count ELSE 0) + 1,
              length |-> Len(x)]
        ELSE stats[x]]

\* the claimed loop: a blank line does not use up max_lines
RECURSIVE ScanLines_BlankNotCounted(_, _, _, _)
ScanLines_BlankNotCounted(stats, line_count, lines, bound) ==
    IF lines = <<>> \/ line_count >= bound THEN stats
    ELSE LET cleaned_line == Strip(Head(lines)) IN
         IF cleaned_line = <<>>
         THEN ScanLines_BlankNotCounted(stats, line_count, Tail(lines), bound)
         ELSE ScanLines_BlankNotCounted(
                  CountSubstrings(stats, extract_substrings(cleaned_line)),
                  line_count + 1, Tail(lines), bound)

\* lines 32-58: the loop over the lines, from line_count on
RECURSIVE ScanLines(_, _, _, _)
ScanLines(stats, line_count, lines, bound) ==
    IF lines = <<>> \/ line_count >= bound THEN stats
    ELSE LET cleaned_line == Strip(Head(lines)) IN
         IF cleaned_line = <<>>
         THEN ScanLines(stats, line_count + 1, Tail(lines), bound)
         ELSE ScanLines(CountSubstrings(stats, extract_substrings(cleaned_line)),
                        line_count + 1, Tail(lines), bound)

(***************************************************************************)
(* SpecEnhanced: build_enhanced_dict on a file and a sample bound.         *)
(***************************************************************************)
\* line 52: the grouping key of a substring
Key(substr) == IF Len(substr) >= 2 THEN SubSeq(substr, 1, 2) ELSE substr

\* the substrings of the set that have the key
WithKey(substrings, key) == {x \in substrings : Key(x) = key}

\* the longest strings of a set
LongestOf(strings) == {x \in strings : \A y \in strings : Len(y) <= Len(x)}

\* lines 45, 55-56 for one key: the loop runs over a set of strings, in an order
\* that the interpreter's string hashing fixes anew for each process.  The entry
\* is replaced only by a strictly longer substring, so it ends as the one of
\* the line's longest substrings under the key that the loop met first, when
\* these are longer than the entry, and as it was otherwise.
Retained(longest, substrings, key) ==
    LET candidates == LongestOf(WithKey(substrings, key)) IN
    IF key \notin DOMAIN longest
           \/ \E x \in candidates : Len(x) > Len(longest[key])
    THEN candidates
    ELSE {longest[key]}

\* lines 45-56: every longest_substrings that one line's loop can leave,
\* the keys of the line's substrings taken one by one
RECURSIVE UpdateLongest(_, _, _)
UpdateLongest(longest, substrings, keys) ==
    IF keys = {} THEN {longest}
    ELSE LET key == CHOOSE k \in keys : TRUE IN
         UNION {{(key :> x) @@ rest : x \in Retained(longest, substrings, key)} :
                   rest \in UpdateLongest(longest, substrings, keys \ {key})}

\* lines 32-58: every longest_substrings the loop over the lines can end with,
\* from one of the dictionaries in longests and from line_count on
RECURSIVE ScanLongest(_, _, _, _)
ScanLongest(longests, line_count, lines, bound) ==
    IF lines = <<>> \/ line_count >= bound THEN longests
    ELSE LET cleaned_line == Strip(Head(lines)) IN
         IF cleaned_line = <<>>
         THEN ScanLongest(longests, line_count + 1, Tail(lines), bound)
         ELSE LET substrings == extract_substrings(cleaned_line) IN
              ScanLongest(
                  UNION {UpdateLongest(longest, substrings,
                                       {Key(x) : x \in substrings}) :
                            longest \in longests},
                  line_count + 1, Tail(lines), bound)

\* lines 65-72: final_dict
FinalDict(longest_substrings, stats) ==
    [key \in DOMAIN longest_substrings |->
        [substring |-> longest_substrings[key],
         length    |-> stats[longest_substrings[key]].length,
         frequency |-> stats[longest_substrings[key]].count]]

MaxRuns == 2   \* runs of build_enhanced_dict on the file

(***************************************************************************)
(* SpecEnhanced: build_enhanced_dict on a file and a sample bound, run     *)
(* after run, each run a process of its own.                               *)
(***************************************************************************)
\* lines 19-74: build_enhanced_dict(file_path, max_lines)
BuildEnhancedDict ==
    /\ Len(enhanced_dicts) < MaxRuns
    /\ LET stats == ScanLines(<<>>, 0, enh_file, max_lines) IN
       /\ substring_stats' = File(stats)
       /\ \E longest_substrings \in ScanLongest({<<>>}, 0, enh_file, max_lines) :
             enhanced_dicts' =
                 Append(enhanced_dicts, FinalDict(longest_substrings, stats))
    /\ UNCHANGED <<enh_file, max_lines>>
    /\ UNCHANGED <<coder_vars, frequency_dict, sort_vars, dist_vars>>

MaxFileLines == 3   \* lines of the sampled file

MaxSample == 2      \* the largest max_lines

SampleLines ==
    { <<>>,                         \* an empty line
      <<" ", " ">>,                 \* a line of whitespace
      <<"a", "b", "c">>,
      <<" ", "a", "b", "c", "d">>,
      <<"b", "c", "d">> }

InitEnhanced ==
    /\ enh_file \in SeqsUpTo(SampleLines, MaxFileLines)
    /\ max_lines \in 1..MaxSample
    /\ substring_stats = NoResult
    /\ enhanced_dicts = <<>>
    /\ CoderIdle
    /\ WordDictIdle
    /\ SortIdle
    /\ DistanceIdle

NextEnhanced == BuildEnhancedDict

SpecEnhanced == InitEnhanced /\ [][NextEnhanced]_vars

(***************************************************************************)
(* SpecLongest: build_enhanced_dict on files with lines longer than        *)
(* max_length, where two substrings of a line can be the longest of a key. *)
(***************************************************************************)
\* a line with two substrings of max_length characters that begin with "ab"
TiedLine(c) == <<"a", "b", "a", "b">> \o Repeat(c, MaxLength - 2)

MaxLongLines == 2   \* lines of a file with long lines

LongLines ==
    { <<>>,
      <<"a", "b", "c">>,
      TiedLine("c"),
      TiedLine("d") }

InitLongest ==
    /\ enh_file \in SeqsUpTo(LongLines, MaxLongLines)
    /\ max_lines \in 1..MaxSample
    /\ substring_stats = NoResult
    /\ enhanced_dicts = <<>>
    /\ CoderIdle
    /\ WordDictIdle
    /\ SortIdle
    /\ DistanceIdle

SpecLongest == InitLongest /\ [][NextEnhanced]_vars

(***************************************************************************)
(* Properties of the dictionary coder.                                     *)
(***************************************************************************)
\* all whitespace-separated tokens of a file, line after line
RECURSIVE FileTokens(_)
FileTokens(file) ==
    IF file = <<>> THEN <<>> ELSE SplitWs(Head(file)) \o FileTokens(Tail(file))

\* the data rows of a dictionary file that have a word column
WordRows(file) == SelectSeq(SubSeq(file, 3, Len(file)), LAMBDA r : Len(RowParts(r)) >= 2)

\* the words of a dictionary file
DictWords(file) == {RowWord(WordRows(file)[k]) : k \in 1..Len(WordRows(file))}

\* C1: word_to_id and id_to_word are mutual inverses in every state reachable by
\* load_dictionary, encode, save_mappings and load_mappings: word_to_id is
\* injective, id_to_word[word_to_id[t]] = t for every mapped token t and
\* word_to_id[id_to_word[i]] = i for every mapped id i.
C1_MutualInverses ==
    /\ \A t, u \in DOMAIN word_to_id : word_to_id[t] = word_to_id[u] => t = u
    /\ \A t \in DOMAIN word_to_id :
          /\ word_to_id[t] \in DOMAIN id_to_word
          /\ id_to_word[word_to_id[t]] = t
    /\ \A i \in DOMAIN id_to_word :
          /\ id_to_word[i] \in DOMAIN word_to_id
          /\ word_to_id[id_to_word[i]] = i

\* a coder holding the saved mappings of three tokens, 'unk' added last by encode
C1_Witness ==
    /\ mappings # NoFile
    /\ enc_file # NoFile
    /\ word_to_id = Content(mappings).word_to_id
    /\ id_to_word = Content(mappings).id_to_word
    /\ next_id = 3
    /\ UNK \in DOMAIN word_to_id
    /\ word_to_id[UNK] = 2
    /\ UNK \notin DictWords(dict_file)

\* the text came back through encode, save_mappings, load_mappings and decode
RoundTrip(text, dict_words, out) ==
    /\ Len(out) = Len(text)
    /\ \A k \in 1..Len(text) :
          LET tokens == SplitWs(text[k])
              back   == SplitWs(out[k])
          IN  /\ Len(back) = Len(tokens)
              /\ \A j \in 1..Len(tokens) :
                    back[j] = IF Lower(tokens[j]) \in dict_words
                              THEN Lower(tokens[j]) ELSE UNK

\* C2: encode, save_mappings, load_mappings in a fresh coder, decode: the output
\* has the lines of the input and on each line as many tokens; a token whose
\* lower-cased form is in the loaded dictionary comes back lower-cased, every
\* other token comes back as 'unk'.
C2_RoundTrip ==
    dec_file # NoFile => RoundTrip(in_file, DictWords(dict_file), Content(dec_file))

\* "A unk" came back as "a unk": one token of the dictionary, one absent from it
C2_Witness ==
    /\ dec_file # NoFile
    /\ pc = "idle"
    /\ in_file = <<<<"A", " ", "u", "n", "k">>>>
    /\ Content(dec_file) = <<<<"a", " ", "u", "n", "k">>>>
    /\ DictWords(dict_file) = {<<"a">>}

\* what one encode step may do to the vocabulary, and the ids it writes for the
\* tokens the vocabulary did not hold
EncodeFrame ==
    LET tokens == FileTokens(in_file)
        ids    == FileTokens(Content(enc_file'))
        absent == {k \in 1..Len(tokens) : Lower(tokens[k]) \notin DOMAIN word_to_id}
        adds   == absent # {} /\ UNK \notin DOMAIN word_to_id
    IN  /\ \A w \in DOMAIN word_to_id :
              w \in DOMAIN word_to_id' /\ word_to_id'[w] = word_to_id[w]
        /\ IF adds
           THEN /\ word_to_id' = Put(word_to_id, UNK, next_id)
                /\ id_to_word' = Put(id_to_word, next_id, UNK)
                /\ next_id \notin DOMAIN id_to_word
                /\ next_id' = next_id + 1
           ELSE UNCHANGED <<word_to_id, id_to_word, next_id>>
        /\ Len(ids) = Len(tokens)
        /\ \A k \in absent : ids[k] = Str(word_to_id'[UNK])

\* C3: during encode the only change to the vocabulary is the one addition of
\* 'unk' at the next free id, made when a token absent from the vocabulary is
\* met; every absent token is written with that id, every earlier mapping keeps
\* its id, and without an absent token vocabulary and next_id stay as they were.
C3_EncodeAddsOnlyUnk ==
    [][(pc = "constructed" /\ pc' = "encoded") => EncodeFrame]_vars

\* encode met two absent tokens and wrote both with the id it gave 'unk'
C3_Witness ==
    /\ pc = "encoded"
    /\ UNK \notin DictWords(dict_file)
    /\ DictWords(dict_file) # {}
    /\ UNK \in DOMAIN word_to_id
    /\ word_to_id[UNK] = next_id - 1
    /\ Len(FileTokens(in_file)) = 2
    /\ \A k \in 1..2 : FileTokens(Content(enc_file))[k] = Str(next_id - 1)

\* the id load_dictionary is to give a word: the number of distinct words of the
\* rows before the first row that has it
FileOrderId(file, word) ==
    LET rows  == WordRows(file)
        first == CHOOSE k \in 1..Len(rows) :
                     RowWord(rows[k]) = word /\ \A j \in 1..(k - 1) : RowWord(rows[j]) # word
    IN  Cardinality({RowWord(rows[j]) : j \in 1..(first - 1)})

\* C4: load_dictionary on an empty coder gives the distinct words of the file the
\* ids 0, 1, 2, ... in the order of their first data row, whatever the rank
\* column says; a word that appears again keeps its id; next_id is then the
\* number of words.
C4_IdsInFileOrder ==
    pc = "constructed" =>
        /\ DOMAIN word_to_id = DictWords(dict_file)
        /\ \A w \in DictWords(dict_file) : word_to_id[w] = FileOrderId(dict_file, w)
        /\ DOMAIN id_to_word = 0..(next_id - 1)
        /\ \A w \in DictWords(dict_file) : id_to_word[word_to_id[w]] = w
        /\ next_id = Cardinality(DictWords(dict_file))

\* a row of rank 2 before a row of rank 1: the first has id 0, the second id 1
C4_Witness ==
    /\ pc = "constructed"
    /\ SubSeq(dict_file, 3, Len(dict_file))
           = <<Row(<<"2">>, <<"a">> \o Ellipsis \o <<" ", " ">>), Row(<<"1">>, UNK)>>
    /\ word_to_id = Put(Put(<<>>, <<"a">>, 0), UNK, 1)
    /\ next_id = 2

\* C5: decode writes for every line of the id file one line with as many
\* whitespace-separated tokens: 'unk' for a token that is no integer or no
\* mapped id, id_to_word of the id for every other token.
C5_DecodeTokenByToken ==
    dec_file # NoFile =>
        LET read    == Content(dec_input)
            written == Content(dec_file)
            i2w     == Content(mappings).id_to_word
        IN  /\ Len(written) = Len(read)
            /\ \A k \in 1..Len(read) :
                  LET ids   == SplitWs(read[k])
                      words == SplitWs(written[k])
                  IN  /\ Len(words) = Len(ids)
                      /\ \A j \in 1..Len(ids) :
                            words[j] = IF /\ ParseInt(ids[j]).ok
                                          /\ ParseInt(ids[j]).val \in DOMAIN i2w
                                       THEN i2w[ParseInt(ids[j]).val] ELSE UNK

\* C6: truncation in the word dictionary file is for display only: after
\* save_word_frequency_dict and load_dictionary every word of frequency_dict,
\* however long, has an id of its own, and encode writes a word with that id.
C6_TruncationIsDisplayOnly ==
    /\ pc = "constructed" =>
          /\ DOMAIN frequency_dict \subseteq DOMAIN word_to_id
          /\ next_id = Cardinality(DOMAIN frequency_dict)
    /\ pc = "encoded" =>
          \A k \in 1..Len(FileTokens(in_file)) :
              LET word == FileTokens(in_file)[k] IN
              /\ word \in DOMAIN word_to_id
              /\ FileTokens(Content(enc_file))[k] = Str(word_to_id[word])
              /\ id_to_word[word_to_id[word]] = word

(***************************************************************************)
(* Properties of the batch sorter.                                         *)
(***************************************************************************)
\* the cleaned lines of the input that are not blank, in input order
RECURSIVE CleanedLines(_)
CleanedLines(raw) ==
    IF raw = <<>> THEN <<>>
    ELSE LET cleaned_line == Strip(clean_line(Head(raw))) IN
         (IF cleaned_line = <<>> THEN <<>> ELSE <<cleaned_line>>)
             \o CleanedLines(Tail(raw))

\* the sorted groups of n consecutive lines (the last may be smaller), concatenated
RECURSIVE SortedGroups(_, _)
SortedGroups(lines, n) ==
    IF lines = <<>> THEN <<>>
    ELSE IF Len(lines) <= n THEN SortedBatch(lines)
    ELSE SortedBatch(SubSeq(lines, 1, n)) \o SortedGroups(SubSeq(lines, n + 1, Len(lines)), n)

\* C7: when read_and_process_in_batches is done, the destination holds the
\* sorted batches of batch_size cleaned non-blank lines, concatenated in input
\* order, whatever it held before.
C7_DestinationIsSortedBatches ==
    pc = "done" => Lines(dest) = SortedGroups(CleanedLines(sort_input), batch_size)

\* C7 holds of every input that has a line which is not blank
C7_HoldsWithANonBlankLine ==
    (pc = "done" /\ CleanedLines(sort_input) # <<>>)
        => dest = File(SortedGroups(CleanedLines(sort_input), batch_size))

Occurrences(seq, x) == Cardinality({k \in 1..Len(seq) : seq[k] = x})

\* the lines of seq at distance d from reference, in their order in seq
AtDistance(seq, reference, d) ==
    SelectSeq(seq, LAMBDA line : levenshtein_distance(reference, line) = d)

\* C8: what process_batch writes for a batch is a permutation of the batch, in
\* non-decreasing distance to the batch's first line, lines of equal distance in
\* their order in the batch; so the first line of the batch is written first.
C8_StableSortByDistance ==
    pb_batch # <<>> =>
        LET reference == pb_batch[1] IN
        /\ Len(pb_written) = Len(pb_batch)
        /\ \A k \in 1..Len(pb_batch) :
              Occurrences(pb_written, pb_batch[k]) = Occurrences(pb_batch, pb_batch[k])
        /\ \A k \in 1..(Len(pb_written) - 1) :
              levenshtein_distance(reference, pb_written[k])
                  <= levenshtein_distance(reference, pb_written[k + 1])
        /\ \A k \in 1..Len(pb_batch) :
              LET d == levenshtein_distance(reference, pb_batch[k]) IN
              AtDistance(pb_written, reference, d) = AtDistance(pb_batch, reference, d)
        /\ pb_written[1] = reference

\* a batch of three lines, the last two at distance 1 from the first: they are
\* written in the order they came in
C8_Witness ==
    /\ pb_batch = <<<<"a">>, <<"b">>, <<"a", "b">>>>
    /\ pb_written = pb_batch

\* the strings one insertion, deletion or substitution away from s
OneEdit(s) ==
    {SubSeq(s, 1, k - 1) \o SubSeq(s, k + 1, Len(s)) : k \in 1..Len(s)}
        \cup {SubSeq(s, 1, k) \o <<c>> \o SubSeq(s, k + 1, Len(s)) :
                 k \in 0..Len(s), c \in Alphabet}
        \cup {[s EXCEPT ![k] = c] : k \in 1..Len(s), c \in Alphabet}

\* the strings at most n edits away from a string of from
RECURSIVE WithinEdits(_, _)
WithinEdits(from, n) ==
    IF n = 0 THEN from
    ELSE WithinEdits(from \cup UNION {OneEdit(s) : s \in from}, n - 1)

\* the least number of single-character edits that turn a into b
MinEdits(a, b) ==
    CHOOSE n \in 0..(Len(a) + Len(b)) :
        /\ b \in WithinEdits({a}, n)
        /\ \A m \in 0..(n - 1) : b \notin WithinEdits({a}, m)

\* C9: levenshtein_distance(a, b) is the least number of single-character
\* insertions, deletions and substitutions that turn a into b; it is symmetric,
\* 0 for a = b and len(s) against the empty string.
C9_DistanceIsMinEdits ==
    distance # NoResult =>
        /\ distance[1] = MinEdits(s1, s2)
        /\ distance[1] = levenshtein_distance(s2, s1)
        /\ (s1 = s2 => distance[1] = 0)
        /\ (s1 = <<>> => distance[1] = Len(s2))

\* the shorter string first, one character kept, two inserted
C9_Witness ==
    /\ s1 = <<"a">>
    /\ s2 = <<"b", "a", "b">>
    /\ distance = <<2>>

(***************************************************************************)
(* Properties of the substring dictionary builder.                         *)
(***************************************************************************)
\* the indices of the lines of file that are not blank
NonBlank(file) == {k \in 1..Len(file) : Strip(file[k]) # <<>>}

\* the statistics that the lines of file with the indices in sampled give
StatsOf(file, sampled, stats) ==
    /\ DOMAIN stats = UNION {extract_substrings(Strip(file[k])) : k \in sampled}
    /\ \A x \in DOMAIN stats :
          /\ stats[x].count
                 = Cardinality({k \in sampled : x \in extract_substrings(Strip(file[k]))})
          /\ stats[x].length = Len(x)

\* the indices of the first n lines of file that are not blank
FirstNonBlank(file, n) ==
    {k \in NonBlank(file) : Cardinality({j \in NonBlank(file) : j < k}) < n}

\* C10 as claimed: the statistics are those of the first max_lines lines that
\* are not blank; a blank line does not use up the bound.
C10_FirstNonBlankLinesSampled ==
    substring_stats # NoResult =>
        StatsOf(enh_file, FirstNonBlank(enh_file, max_lines), Content(substring_stats))

\* C10 as the code has it: the statistics are those of the lines among the first
\* max_lines lines of the file that are not blank; a blank line uses up the
\* bound like any other, and no line after the first max_lines contributes.
C10_NonBlankOfFirstLinesSampled ==
    substring_stats # NoResult =>
        StatsOf(enh_file, {k \in NonBlank(enh_file) : k <= max_lines},
                Content(substring_stats))

\* an empty first line used up one of max_lines = 2: the second line was
\* sampled, the third, the second that is not blank, was not
C10_Witness ==
    /\ substring_stats # NoResult
    /\ enh_file = <<<<>>, <<"a", "b", "c">>, <<"b", "c", "d">>>>
    /\ max_lines = 2
    /\ DOMAIN Content(substring_stats) = {<<"a", "b", "c">>}

\* the substrings that build_enhanced_dict saw: those of the lines among the
\* first max_lines lines that are not blank
SeenIn(k) == extract_substrings(Strip(enh_file[k]))

SampledLines == {k \in NonBlank(enh_file) : k <= max_lines}

Seen == UNION {SeenIn(k) : k \in SampledLines}

\* the entry of a key is one of the longest substrings seen under the key, and
\* one of the first line that has any of them
RetainedIsLongest(dict) ==
    /\ DOMAIN dict = {Key(x) : x \in Seen}
    /\ \A key \in DOMAIN dict :
          LET longest == LongestOf(WithKey(Seen, key)) IN
          /\ dict[key].substring \in longest
          /\ \E k \in SampledLines :
                /\ dict[key].substring \in SeenIn(k)
                /\ \A j \in SampledLines : j < k => SeenIn(j) \cap longest = {}

\* C11: every dictionary build_enhanced_dict returns holds for each key a
\* longest substring seen under the key, the first seen of them, and two runs
\* on the same file with the same bound return the same dictionary.
C11_LongestFirstSeenSameEveryRun ==
    /\ \A i \in DOMAIN enhanced_dicts : RetainedIsLongest(enhanced_dicts[i])
    /\ \A i, j \in DOMAIN enhanced_dicts : enhanced_dicts[i] = enhanced_dicts[j]

\* what holds of every run: the entry is a longest substring under its key,
\* out of the first line that has one
C11_LongestOfFirstLineEveryRun ==
    \A i \in DOMAIN enhanced_dicts : RetainedIsLongest(enhanced_dicts[i])

\* two runs on the one line "abab" and 48 times "c" that differ in the entry
\* of "ab"
C11_TwoRunsDiffer ==
    /\ enh_file = <<TiedLine("c")>>
    /\ Len(enhanced_dicts) = 2
    /\ enhanced_dicts[1][<<"a", "b">>].substring
           = SubSeq(TiedLine("c"), 1, MaxLength)
    /\ enhanced_dicts[2][<<"a", "b">>].substring
           = SubSeq(TiedLine("c"), 3, MaxLength + 2)

====
